---------------------------- MODULE Spec2Model ----------------------------
(***************************************************************************)
(* Model of mitreattack/collections/stix_to_collection.py:                 *)
(* STIXToCollection.stix_to_collection and the CLI entrypoint main.        *)
(*                                                                         *)
(* Python dicts are functions whose DOMAIN is the set of keys present, so  *)
(* a missing key is a key outside DOMAIN.  Mutable dicts live in `heap`,   *)
(* indexed by reference, so that aliasing (bundle vs. working_bundle) is   *)
(* observable.                                                             *)
(***************************************************************************)
EXTENDS Naturals, Sequences, FiniteSets

VARIABLES
    inFile,          \* content of args.input (never written)
    outFile,         \* args.output: [exists, text]
    heap,            \* reference -> bundle dict
    bundle,          \* reference held by the caller (main's `bundle`)
    working_bundle,  \* reference held by stix_to_collection's `working_bundle`
    raw_collection,  \* the collection dict under construction
    idx,             \* position of the loop of line 76 in working_bundle["objects"]
    result,          \* value returned by stix_to_collection
    stdout,          \* diagnostics printed so far
    pc               \* control point

vars == <<inFile, outFile, heap, bundle, working_bundle, raw_collection,
          idx, result, stdout, pc>>

---------------------------------------------------------------------------
(* Bounds of the model *)

MaxLen == 3

---------------------------------------------------------------------------
(* Python values *)

None == "None"
KeyError == "KeyError"
Unset == "<unset>"
NoRef == "<unbound>"
CallerRef == "ref:json.load"
CopyRef == "ref:deepcopy"

X_MITRE_SPEC_VERSION == "2.1.0"

CollectionType == "x-mitre-collection"
MarkingType == "marking-definition"

EmptyDict == [k \in {} |-> None]

With(d, k, v) == [f \in DOMAIN d \cup {k} |-> IF f = k THEN v ELSE d[f]]

\* d.get(k, default)
Get(d, k, default) == IF k \in DOMAIN d THEN d[k] ELSE default

\* d[k] with a tolerant lookup (the bug d.get(k)): a missing key yields None
ItemOrNone(d, k) == IF k \in DOMAIN d THEN d[k] ELSE None

\* d[k]: a missing key raises KeyError
Item(d, k) == IF k \in DOMAIN d THEN d[k] ELSE KeyError

Range(s) == {s[i] : i \in 1..Len(s)}

---------------------------------------------------------------------------
(* Inputs: the bundles main may find in args.input *)

SeqsUpTo(S, n) == UNION {[1..k -> S] : k \in 0..n}

\* id / modified present or missing
Cores == { [id |-> "id1", modified |-> "t1"],
           [id |-> "id2", modified |-> "t2"],
           [modified |-> "t1"],
           [id |-> "id1"] }

\* objects that differ in type and in the presence of id and modified
StructObjs ==
    {With(c, "type", t) : c \in Cores, t \in {"attack-pattern", MarkingType}}
    \cup {[type |-> CollectionType, id |-> "c0", modified |-> "t0"]}

MarkingOpts == {Unset, <<"m1">>, <<"m1", "m2">>, <<"m2">>}
CreatedByOpts == {Unset, "", "a", "b"}

WithOpt(d, k, v) == IF v = Unset THEN d ELSE With(d, k, v)

ContentBase == [type |-> "attack-pattern", id |-> "id1", modified |-> "t1"]

MarkingBase == [type |-> MarkingType, id |-> "md1",
                object_marking_refs |-> <<"m3">>, created_by_ref |-> "c"]

\* well-formed objects that differ in object_marking_refs and created_by_ref
MetaObjs ==
    {WithOpt(WithOpt(ContentBase, "created_by_ref", c), "object_marking_refs", m)
        : c \in {Unset, "b"}, m \in MarkingOpts}
    \cup {WithOpt(ContentBase, "created_by_ref", c) : c \in CreatedByOpts}
    \cup {MarkingBase}

SpecVersionOpts == {"2.0", "2.1", "3.0", Unset}

MkBundle(objs, v) == WithOpt([objects |-> objs], "spec_version", v)

InputBundles ==
    {MkBundle(objs, v) : objs \in SeqsUpTo(StructObjs, MaxLen), v \in SpecVersionOpts}
    \cup {MkBundle(objs, v) : objs \in SeqsUpTo(MetaObjs, MaxLen), v \in {"2.0", "2.1"}}

\* command-line arguments other than the file names
args == [name |-> "Name", version |-> "1.0", description |-> None]

---------------------------------------------------------------------------
(* json *)

NoText == [json |-> "<empty>"]

JsonDumps(r, h) ==
    IF r = None THEN [json |-> "null"] ELSE [json |-> "object", value |-> h[r]]

JsonLoad(text) == text.value

---------------------------------------------------------------------------
(* Helpers of stix_to_collection *)

IsCollectionTypo(obj) == Item(obj, "type") = "x-mitre-collections"

\* line 31
IsCollection(obj) == Item(obj, "type") = CollectionType

HasCollectionFirstOnly(objs) == Len(objs) > 0 /\ IsCollection(objs[1])

\* lines 30-32: the loop finds a collection object
HasCollection(objs) == \E i \in 1..Len(objs) : IsCollection(objs[i])

AliasTarget(src, fresh) == src

\* line 29: copy.deepcopy allocates a fresh dict, independent of its argument
DeepCopyTarget(src, fresh) == fresh

\* line 39-40: stix2elevator's step_bundle, the delegated upgrade: every object
\* is stamped with the 2.1 spec_version; type, id, modified, markings and
\* authorship are carried over
StepBundle(b) ==
    [b EXCEPT !.objects = [i \in 1..Len(b.objects) |->
                             With(b.objects[i], "spec_version", "2.1")]]

\* line 52: traceback.print_exc(e) hands the exception as `limit`; the traceback
\* module compares limit >= 0, which raises TypeError for a non-integer
PrintExc(limitKind) == IF limitKind \in {"int", "None"} THEN "printed" ELSE "TypeError"

DefaultDescription ==
    "This collection was autogenerated by STIXToCollection, as part of mitreattack-python"

\* lines 59-75
NewCollection(name, version, description) ==
    [type |-> CollectionType,
     id |-> "x-mitre-collection--uuid4",
     spec_version |-> "2.1",
     name |-> name,
     x_mitre_version |-> version,
     x_mitre_attack_spec_version |-> X_MITRE_SPEC_VERSION,
     description |-> IF description = None \/ description = ""
                     THEN DefaultDescription ELSE description,
     created_by_ref |-> "",
     created |-> "now",
     modified |-> "now",
     object_marking_refs |-> <<>>,
     x_mitre_contents |-> <<>>]

IsContentAlways(obj) == TRUE

\* line 77
IsContent(obj) == Item(obj, "type") # MarkingType

\* line 80: dict(object_ref=obj["id"], object_modified=obj["modified"])
ContentEntry(obj) ==
    [object_ref |-> Item(obj, "id"), object_modified |-> Item(obj, "modified")]

\* line 82: the subscripts of line 80 raised KeyError
RaisedKeyError(entry) ==
    entry.object_ref = KeyError \/ entry.object_modified = KeyError

PrependContent(contents, entry) == <<entry>> \o contents

\* line 79
AppendContent(contents, entry) == Append(contents, entry)

AddMarkingAlways(refs, omr) == Append(refs, omr)

\* lines 87-88
AddMarking(refs, omr) == IF omr \notin Range(refs) THEN Append(refs, omr) ELSE refs

RECURSIVE AddMarkings(_, _)
\* lines 85-88
AddMarkings(refs, omrs) ==
    IF omrs = <<>> THEN refs
    ELSE AddMarkings(AddMarking(refs, Head(omrs)), Tail(omrs))

\* lines 90-91: the conflict that is reported and skipped
CreatedByConflict(current, new) == new # current /\ current # ""

AdoptLast(current, new) == new

\* lines 90-98
AdoptCreatedBy(current, new) ==
    IF new # current
    THEN IF current # "" THEN current ELSE new
    ELSE current

AppendLast(objs, c) == Append(objs, c)

\* line 100: list.insert(0, raw_collection)
InsertFirst(objs, c) == <<c>> \o objs

---------------------------------------------------------------------------
(* State machine *)

Init ==
    /\ inFile \in {[json |-> "object", value |-> b] : b \in InputBundles}
    /\ outFile = [exists |-> FALSE, text |-> NoText]
    /\ heap = EmptyDict
    /\ bundle = NoRef
    /\ working_bundle = NoRef
    /\ raw_collection = EmptyDict
    /\ idx = 0
    /\ result = NoRef
    /\ stdout = <<>>
    /\ pc = "main"

\* lines 106-108: main loads the input and opens the output for writing,
\* which creates or truncates it, before stix_to_collection is called
MainOpen ==
    /\ pc = "main"
    /\ heap' = With(heap, CallerRef, JsonLoad(inFile))
    /\ bundle' = CallerRef
    /\ outFile' = [exists |-> TRUE, text |-> NoText]
    /\ pc' = "copy"
    /\ UNCHANGED <<inFile, working_bundle, raw_collection, idx, result, stdout>>

\* line 29
DeepCopy ==
    /\ pc = "copy"
    /\ LET target == DeepCopyTarget(bundle, CopyRef) IN
        /\ working_bundle' = target
        /\ heap' = With(heap, target, heap[bundle])
    /\ pc' = "scan"
    /\ UNCHANGED <<inFile, outFile, bundle, raw_collection, idx, result, stdout>>

\* lines 30-32
ScanCollection ==
    /\ pc = "scan"
    /\ IF HasCollection(heap[working_bundle].objects)
       THEN /\ result' = bundle
            /\ pc' = "returned"
       ELSE /\ result' = result
            /\ pc' = "version"
    /\ UNCHANGED <<inFile, outFile, heap, bundle, working_bundle, raw_collection,
                   idx, stdout>>

\* lines 33-46 (the upgrade succeeds), then line 54 (false for "2.0")
UpgradeOk ==
    /\ pc = "version"
    /\ Get(heap[bundle], "spec_version", "") = "2.0"
    /\ heap' = [heap EXCEPT ![working_bundle] = StepBundle(@)]
    /\ stdout' = stdout \o <<"NOTE:upgrading", "NOTE:notice">>
    /\ pc' = "collection"
    /\ UNCHANGED <<inFile, outFile, bundle, working_bundle, raw_collection, idx, result>>

\* lines 33-40, 47-53 (the upgrade raises)
UpgradeFail ==
    /\ pc = "version"
    /\ Get(heap[bundle], "spec_version", "") = "2.0"
    /\ IF PrintExc("exception") = "printed"
       THEN /\ stdout' = stdout \o <<"NOTE:upgrading", "ERROR:upgrade", "ERROR:trace">>
            /\ result' = None
            /\ pc' = "returned"
       ELSE /\ stdout' = stdout \o <<"NOTE:upgrading", "ERROR:upgrade">>
            /\ result' = result
            /\ pc' = "raised"
    /\ UNCHANGED <<inFile, outFile, heap, bundle, working_bundle, raw_collection, idx>>

\* lines 33, 54-58
NoUpgrade ==
    /\ pc = "version"
    /\ Get(heap[bundle], "spec_version", "") # "2.0"
    /\ stdout' = IF Get(heap[bundle], "spec_version", "") # "2.1"
                 THEN Append(stdout, "ERROR:unsupported-version")
                 ELSE stdout
    /\ pc' = "collection"
    /\ UNCHANGED <<inFile, outFile, heap, bundle, working_bundle, raw_collection,
                   idx, result>>

\* lines 59-75
CreateCollection ==
    /\ pc = "collection"
    /\ raw_collection' = NewCollection(args.name, args.version, args.description)
    /\ idx' = 1
    /\ pc' = "loop"
    /\ UNCHANGED <<inFile, outFile, heap, bundle, working_bundle, result, stdout>>

\* lines 76-98: one iteration of the loop
ProcessObject ==
    /\ pc = "loop"
    /\ idx <= Len(heap[working_bundle].objects)
    /\ LET obj == heap[working_bundle].objects[idx]
           entry == ContentEntry(obj)
       IN  IF ~IsContent(obj)
           THEN /\ idx' = idx + 1
                /\ UNCHANGED <<raw_collection, result, stdout, pc>>
           ELSE IF RaisedKeyError(entry)
           THEN /\ stdout' = Append(stdout, "ERROR:missing-field")
                /\ result' = None
                /\ pc' = "returned"
                /\ UNCHANGED <<raw_collection, idx>>
           ELSE LET c1 == [raw_collection EXCEPT
                             !.x_mitre_contents = AppendContent(@, entry)]
                    c2 == IF "object_marking_refs" \in DOMAIN obj
                          THEN [c1 EXCEPT !.object_marking_refs =
                                            AddMarkings(@, obj["object_marking_refs"])]
                          ELSE c1
                    conflict == /\ "created_by_ref" \in DOMAIN obj
                                /\ CreatedByConflict(c2.created_by_ref, obj["created_by_ref"])
                    c3 == IF "created_by_ref" \in DOMAIN obj
                          THEN [c2 EXCEPT !.created_by_ref =
                                            AdoptCreatedBy(@, obj["created_by_ref"])]
                          ELSE c2
                IN  /\ raw_collection' = c3
                    /\ stdout' = IF conflict
                                 THEN Append(stdout, "NOTE:multiple-created_by_ref")
                                 ELSE stdout
                    /\ idx' = idx + 1
                    /\ UNCHANGED <<result, pc>>
    /\ UNCHANGED <<inFile, outFile, heap, bundle, working_bundle>>

\* lines 100-101
InsertAndReturn ==
    /\ pc = "loop"
    /\ idx > Len(heap[working_bundle].objects)
    /\ heap' = [heap EXCEPT ![working_bundle].objects = InsertFirst(@, raw_collection)]
    /\ result' = working_bundle
    /\ pc' = "returned"
    /\ UNCHANGED <<inFile, outFile, bundle, working_bundle, raw_collection, idx, stdout>>

\* lines 109-113: the returned value is serialised and written
MainWrite ==
    /\ pc = "returned"
    /\ outFile' = [exists |-> TRUE, text |-> JsonDumps(result, heap)]
    /\ pc' = "exit"
    /\ UNCHANGED <<inFile, heap, bundle, working_bundle, raw_collection, idx,
                   result, stdout>>

\* lines 106-113: an exception leaves both with-blocks; nothing was written
MainPropagate ==
    /\ pc = "raised"
    /\ pc' = "crashed"
    /\ UNCHANGED <<inFile, outFile, heap, bundle, working_bundle, raw_collection,
                   idx, result, stdout>>

Next ==
    \/ MainOpen
    \/ DeepCopy
    \/ ScanCollection
    \/ UpgradeOk
    \/ UpgradeFail
    \/ NoUpgrade
    \/ CreateCollection
    \/ ProcessObject
    \/ InsertAndReturn
    \/ MainWrite
    \/ MainPropagate

Spec == Init /\ [][Next]_vars

---------------------------------------------------------------------------
(* Vocabulary of the properties, stated on the input file and the outcome,  *)
(* independently of the helpers of the program above                        *)

Input == JsonLoad(inFile)

InputVersion == IF "spec_version" \in DOMAIN Input THEN Input.spec_version ELSE ""

Returned == pc \in {"returned", "exit"}

Failed == pc \in {"raised", "crashed"}

IsCollectionObject(o) == o.type = "x-mitre-collection"

IsContentObject(o) == o.type # "marking-definition"

IsMalformed(o) ==
    IsContentObject(o) /\ ("id" \notin DOMAIN o \/ "modified" \notin DOMAIN o)

CollectionCount(objs) == Cardinality({i \in 1..Len(objs) : IsCollectionObject(objs[i])})

InputHasCollection == CollectionCount(Input.objects) > 0

InputMalformed == \E i \in 1..Len(Input.objects) : IsMalformed(Input.objects[i])

ContentOf(objs) == SelectSeq(objs, IsContentObject)

ExpectedContents(objs) ==
    LET c == ContentOf(objs)
    IN  [i \in 1..Len(c) |-> [object_ref |-> c[i].id, object_modified |-> c[i].modified]]

RECURSIVE AllMarkings(_)
AllMarkings(objs) ==
    IF objs = <<>> THEN <<>>
    ELSE (IF "object_marking_refs" \in DOMAIN Head(objs)
          THEN Head(objs).object_marking_refs ELSE <<>>) \o AllMarkings(Tail(objs))

RECURSIVE FirstSeen(_)
FirstSeen(s) ==
    IF s = <<>> THEN <<>>
    ELSE <<Head(s)>> \o FirstSeen(SelectSeq(Tail(s), LAMBDA x : x # Head(s)))

CarriesCreatedBy(o) == "created_by_ref" \in DOMAIN o

CarriesNonEmptyCreatedBy(o) == "created_by_ref" \in DOMAIN o /\ o.created_by_ref # ""

ExpectedCreatedBy(objs) ==
    LET carriers == SelectSeq(ContentOf(objs), CarriesNonEmptyCreatedBy)
    IN  IF carriers = <<>> THEN "" ELSE Head(carriers).created_by_ref

\* the build succeeded: a bundle came back for an input without collection object
Success == Returned /\ result # None /\ ~InputHasCollection

Output == heap[result]

OutCollection == heap[result].objects[1]

---------------------------------------------------------------------------
(* C1 - Completeness: after a successful build on a bundle without          *)
(* collection object, x_mitre_contents is exactly the sequence of           *)
(* {object_ref: O.id, object_modified: O.modified} of the input objects     *)
(* that are not marking-definitions, in bundle order; marking-definitions   *)
(* have no entry.                                                           *)
C1_Completeness ==
    Success => OutCollection.x_mitre_contents = ExpectedContents(Input.objects)

C1_Witness ==
    /\ Success
    /\ Len(Input.objects) = 3
    /\ Input.objects[2].type = "marking-definition"
    /\ OutCollection.x_mitre_contents =
         << [object_ref |-> "id2", object_modified |-> "t2"],
            [object_ref |-> "id1", object_modified |-> "t1"] >>

C3_NonMutation ==
    pc # "main" => heap[bundle] = Input

C3_Witness ==
    /\ pc = "exit"
    /\ Success
    /\ Len(Input.objects) = 2
    /\ Len(Output.objects) = 3
    /\ result # bundle
    /\ heap[bundle] = Input

(* C4 - Missing-field abort: for a bundle without collection object that    *)
(* needs no upgrade the call always returns, and it returns None exactly    *)
(* when some object that is not a marking-definition lacks id or modified,  *)
(* wherever it stands; marking-definitions lacking them never abort.        *)
C4_MissingFieldAbort ==
    (~InputHasCollection /\ InputVersion # "2.0") =>
        /\ ~Failed
        /\ Returned => ((result = None) <=> InputMalformed)

C4_Witness ==
    /\ Returned
    /\ result = None
    /\ InputVersion # "2.0"
    /\ Len(Input.objects) = 3
    /\ Input.objects[1].type = "marking-definition"
    /\ "id" \notin DOMAIN Input.objects[1]
    /\ ~IsMalformed(Input.objects[2])
    /\ IsMalformed(Input.objects[3])
    /\ "modified" \notin DOMAIN Input.objects[3]

(* C5 - Upgrade failure: once the failure of the 2.0-to-2.1 upgrade has     *)
(* been reported, the call has completed normally with the value None.      *)
C5_UpgradeFailureReturnsNone ==
    "ERROR:upgrade" \in Range(stdout) => (Returned /\ result = None)

(* C6 - Marking dedup: after a successful build the collection's            *)
(* object_marking_refs has no duplicate and is the first-occurrence order   *)
(* of the references carried by the content objects, also of those whose    *)
(* created_by_ref conflicts.                                                *)
C6_MarkingDedup ==
    Success =>
        /\ OutCollection.object_marking_refs =
             FirstSeen(AllMarkings(ContentOf(Input.objects)))
        /\ Cardinality(Range(OutCollection.object_marking_refs)) =
             Len(OutCollection.object_marking_refs)

C6_Witness ==
    /\ Success
    /\ Len(Input.objects) = 3
    /\ CarriesCreatedBy(Input.objects[1])
    /\ Input.objects[1].created_by_ref = "a"
    /\ CarriesCreatedBy(Input.objects[2])
    /\ Input.objects[2].created_by_ref = "b"
    /\ "object_marking_refs" \in DOMAIN Input.objects[2]
    /\ Input.objects[2].object_marking_refs = <<"m1", "m2">>
    /\ "object_marking_refs" \in DOMAIN Input.objects[3]
    /\ Input.objects[3].object_marking_refs = <<"m2">>
    /\ "NOTE:multiple-created_by_ref" \in Range(stdout)
    /\ OutCollection.object_marking_refs = <<"m1", "m2">>

(* C7 - Authorship first-seen-wins, as claimed: the collection's            *)
(* created_by_ref is that of the first content object carrying one, and ""  *)
(* when none carries one; a later different value never aborts the build.   *)
C7_FirstCarrierWins ==
    (Returned /\ ~InputHasCollection /\ ~InputMalformed) =>
        /\ result # None
        /\ LET carriers == SelectSeq(ContentOf(Input.objects), CarriesCreatedBy)
           IN  OutCollection.created_by_ref =
                 IF carriers = <<>> THEN "" ELSE Head(carriers).created_by_ref

(* C7 - Authorship first-seen-wins, amended: the collection's               *)
(* created_by_ref is that of the first content object carrying a non-empty  *)
(* one, and "" when none does; a later different value never aborts.        *)
C7_FirstNonEmptyCarrierWins ==
    (Returned /\ ~InputHasCollection /\ ~InputMalformed) =>
        /\ result # None
        /\ OutCollection.created_by_ref = ExpectedCreatedBy(Input.objects)

C7_Witness ==
    /\ Success
    /\ Len(Input.objects) = 3
    /\ ~CarriesCreatedBy(Input.objects[1])
    /\ CarriesCreatedBy(Input.objects[2])
    /\ Input.objects[2].created_by_ref = "a"
    /\ CarriesCreatedBy(Input.objects[3])
    /\ Input.objects[3].created_by_ref = "b"
    /\ "NOTE:multiple-created_by_ref" \in Range(stdout)
    /\ OutCollection.created_by_ref = "a"

(* C8 - Single collection, as claimed: a returned bundle never holds more   *)
(* than one x-mitre-collection object; none in the input gives exactly one, *)
(* and an input that has one is returned unchanged.                         *)
C8_AtMostOneCollection ==
    (Returned /\ result # None) =>
        /\ CollectionCount(Output.objects) <= 1
        /\ ~InputHasCollection => CollectionCount(Output.objects) = 1
        /\ InputHasCollection => Output = Input

(* C8 - Single collection, amended: a returned bundle holds exactly one     *)
(* x-mitre-collection object when the input has none, and otherwise is the  *)
(* input unchanged, so it holds more than one only if the input did.        *)
C8_OneCollectionOrUnchanged ==
    (Returned /\ result # None) =>
        /\ ~InputHasCollection => CollectionCount(Output.objects) = 1
        /\ InputHasCollection => Output = Input
        /\ CollectionCount(Input.objects) <= 1 => CollectionCount(Output.objects) = 1

C8_Witness ==
    /\ Success
    /\ Len(Input.objects) = 2
    /\ CollectionCount(Input.objects) = 0
    /\ CollectionCount(Output.objects) = 1

(* C9 - No output on failure: when main is done, a None result has left the *)
(* output file neither created, truncated nor filled, and a returned bundle *)
(* is what the file holds.                                                  *)
C9_NoOutputOnFailure ==
    pc = "exit" =>
        IF result = None
        THEN outFile = [exists |-> FALSE, text |-> NoText]
        ELSE outFile = [exists |-> TRUE, text |-> JsonDumps(result, heap)]

(* C10 - Prepend and continue: for a bundle without collection object,      *)
(* with well-formed content objects and a spec_version other than "2.0",    *)
(* the call returns the input with the generated collection object put      *)
(* before its objects, which are unchanged and in order; the result does    *)
(* not depend on the spec_version, which only decides the diagnostic.       *)
C10_PrependAndContinue ==
    (~InputHasCollection /\ ~InputMalformed /\ InputVersion # "2.0") =>
        /\ ~Failed
        /\ Returned =>
            /\ result # None
            /\ IsCollectionObject(OutCollection)
            /\ Output = [Input EXCEPT !.objects = <<OutCollection>> \o Input.objects]
            /\ OutCollection =
                 [NewCollection(args.name, args.version, args.description) EXCEPT
                    !.x_mitre_contents = ExpectedContents(Input.objects),
                    !.created_by_ref = ExpectedCreatedBy(Input.objects),
                    !.object_marking_refs =
                        FirstSeen(AllMarkings(ContentOf(Input.objects)))]
            /\ ("ERROR:unsupported-version" \in Range(stdout)) <=> (InputVersion # "2.1")

C10_Witness ==
    /\ Returned
    /\ result # None
    /\ "spec_version" \notin DOMAIN Input
    /\ Len(Input.objects) = 3
    /\ Input.objects[1].type = "marking-definition"
    /\ IsContentObject(Input.objects[2])
    /\ Len(Output.objects) = 4
    /\ "ERROR:unsupported-version" \in Range(stdout)

=============================================================================
